---------------------------- MODULE Spec2Model ----------------------------
(***************************************************************************)
(* Label resolution of EuroEval's sequence-classification task group       *)
(* (src/src/euroeval/task_utils/sequence_classification.py):               *)
(*   extract_labels_from_generation  - the dispatcher                      *)
(*   get_closest_logprobs_labels     - the logprob resolver                *)
(*   get_closest_word_edit_labels    - the edit-distance resolver          *)
(*   compute_metrics                 - the mapping of predictions to ids   *)
(* and SequenceClassification._create_numerical_labels                     *)
(* (src/src/scandeval/sequence_classification.py), under SpecNumerical.    *)
(*                                                                         *)
(* A string is a sequence of one-character strings.  A ranked token list   *)
(* is the sequence of the token texts of the (token, logprob) pairs of one *)
(* decoding step, in rank order; the code never reads the logprob value.   *)
(* The loops of the resolvers fetch their input one element at a time      *)
(* (`for sample in ...`, `for logprob_list in sample`), and the model      *)
(* draws each element when the loop fetches it: the batch is the sequence  *)
(* of the samples fetched, and its size N the number of them.              *)
(***************************************************************************)
EXTENDS Integers, Sequences, FiniteSets, TLC

VARIABLES
    dataset_config,            \* [id2label, prompt_label_mapping]
    first_label_token_mapping, \* [is_dict, flag, dict]
    scores_present,            \* model_output.scores is not None
    pc,                        \* position in the code
    resolver,                  \* the resolver the dispatcher called, or "none"
    exception,                 \* the exception raised, or None
    output_labels,             \* output_labels / new_predicted_labels
    sample_len,                \* len(sample) of the sample being scanned
    step_idx,                  \* decoding steps of the sample fetched so far
    generated_labels,          \* normalised, non-empty tokens of the step
    label_idx,                 \* position of the token scan in the step
    previously_generated_labels, \* the accumulator
    output_label,              \* output_label of the step, or None
    predicted_label,           \* the text sample last resolved (edit distance)
    sample_idx,                \* samples of the batch fetched so far
    result,                    \* what the resolver returned, or None
    predictions,               \* compute_metrics' predictions, or None
    first_step_size,           \* history: len(generated_labels) of the sample's first step
    first_label,               \* history: generated_labels[0] of that step, or None
    matched,                   \* history: a text of the sample had candidate labels
    candidate_sets,            \* history: the sample's non-empty candidate sets, each
                               \* with the position in its step of the token it is of
    examples,                  \* _create_numerical_labels' batch: [label |-> list]
    label2id,                  \* _create_numerical_labels' label2id
    labels_at_call             \* history: examples["label"] when the method was called

vars == <<dataset_config, first_label_token_mapping, scores_present, pc, resolver, exception, output_labels, sample_len, step_idx,
          generated_labels, label_idx, previously_generated_labels,
          output_label, predicted_label, sample_idx, result, predictions,
          first_step_size, first_label, matched, candidate_sets, examples,
          label2id, labels_at_call>>

(***************************************************************************)
(* Bounds of the model.                                                    *)
(***************************************************************************)
MaxSamples == 2    \* samples in a batch
MaxSteps == 2      \* decoding steps in a sample
MaxRanked == 2     \* ranked tokens in a decoding step
MaxTextLen == 2    \* characters in a decoded text sample
MaxExamples == 2   \* labels in a batch of _create_numerical_labels

\* Python's None, where a string or an exception may stand.
None == <<"None">>

\* Python's None, where a list of strings may stand.
NoLabels == <<None>>

\* Python's None, where a list of label indices may stand.
NoPredictions == <<-1>>

(***************************************************************************)
(* Strings.                                                                *)
(***************************************************************************)
\* The characters the regular expression [a-zæøåüöä] accepts.
AlphabetChars == {"a", "b", "c"}

\* str.lower() on one character.
LowerChar(c) ==
    CASE c = "A" -> "a"
      [] c = "B" -> "b"
      [] c = "C" -> "c"
      [] OTHER -> c

\* str.upper() on one character.
UpperChar(c) ==
    CASE c = "a" -> "A"
      [] c = "b" -> "B"
      [] c = "c" -> "C"
      [] OTHER -> c

\* str.upper()
Upper(s) == [i \in 1..Len(s) |-> UpperChar(s[i])]

\* str.lower()
Lower(s) == [i \in 1..Len(s) |-> LowerChar(s[i])]

RECURSIVE StripLeading(_)
\* re.sub(r"^[^a-zæøåüöä]+", "", s)
StripLeading(s) ==
    IF s = <<>> \/ Head(s) \in AlphabetChars THEN s ELSE StripLeading(Tail(s))

RECURSIVE StripTrailing(_)
\* re.sub(r"[^a-zæøåüöä]+$", "", s)
StripTrailing(s) ==
    IF s = <<>> \/ s[Len(s)] \in AlphabetChars
    THEN s
    ELSE StripTrailing(SubSeq(s, 1, Len(s) - 1))

\* re.sub(pattern=r"^[^a-zæøåüöä]+|[^a-zæøåüöä]+$", repl="", string=label.lower())
NormaliseToken(label) == StripTrailing(StripLeading(Lower(label)))

RECURSIVE Join(_)
\* "".join(strings)
Join(strings) ==
    IF strings = <<>> THEN <<>> ELSE Head(strings) \o Join(Tail(strings))

\* s.startswith(prefix)
StartsWith(s, prefix) ==
    /\ Len(prefix) <= Len(s)
    /\ SubSeq(s, 1, Len(prefix)) = prefix

Min2(a, b) == IF a <= b THEN a ELSE b

RECURSIVE Levenshtein(_, _)
\* Levenshtein.distance(s1, s2): insertions, deletions, substitutions of weight 1
Levenshtein(s1, s2) ==
    IF s1 = <<>> THEN Len(s2)
    ELSE IF s2 = <<>> THEN Len(s1)
    ELSE IF Head(s1) = Head(s2) THEN Levenshtein(Tail(s1), Tail(s2))
    ELSE 1 + Min2(Levenshtein(Tail(s1), s2),
                  Min2(Levenshtein(s1, Tail(s2)),
                       Levenshtein(Tail(s1), Tail(s2))))

\* All sequences over S of length at most n.
SeqsUpTo(S, n) == UNION {[1..k -> S] : k \in 0..n}

(***************************************************************************)
(* The inputs.                                                             *)
(***************************************************************************)
\* Dataset configurations: id2label in index order (a sequence stands for the
\* dict {0: ..., 1: ...}) and prompt_label_mapping from label to surface form.
DatasetConfigs ==
    LET mapping == ("positive" :> <<"a", "b">>) @@ ("negative" :> <<"a", "c">>)
    IN  { [id2label |-> <<"positive", "negative">>,
           prompt_label_mapping |-> mapping],
          [id2label |-> <<"negative", "positive", "neutral">>,
           prompt_label_mapping |-> mapping @@ ("neutral" :> <<"b", "c">>)],
          [id2label |-> <<"neutral", "positive", "negative">>,
           prompt_label_mapping |->
               ("neutral" :> <<"b", "c">>) @@ ("positive" :> <<"A", "b">>)
                   @@ ("negative" :> <<"a", "c">>)] }

\* The token texts a decoding step may rank.
TokenTexts == { <<"-", "A">>, <<"b">>, <<"c">>, <<"-">> }

\* The ranked token lists of one decoding step.
RankedLists == SeqsUpTo(TokenTexts, MaxRanked)

\* The decoded text samples.
TextSamples == SeqsUpTo({"a", "b", "A"}, MaxTextLen)

\* The range of a sequence.
Range(seq) == {seq[i] : i \in 1..Len(seq)}

\* english_labels, english2local, candidate_labels of get_closest_logprobs_labels
LogprobsCandidateLabels(config) ==
    [i \in 1..Len(config.id2label) |->
        Lower(config.prompt_label_mapping[config.id2label[i]])]

\* candidate_labels of get_closest_word_edit_labels
EditCandidateLabels(config) ==
    [i \in 1..Len(config.id2label) |->
        config.prompt_label_mapping[config.id2label[i]]]

\* A value of first_label_token_mapping that is a Boolean.
BoolMapping(flag) == [is_dict |-> FALSE, flag |-> flag, dict |-> <<>>]

\* A value of first_label_token_mapping that is a dict with the keys `keys`,
\* the first token of a label being its first character.
DictMapping(keys) ==
    [is_dict |-> TRUE, flag |-> TRUE,
     dict |-> [label \in keys |-> SubSeq(label, 1, 1)]]

\* The values of first_label_token_mapping: a Boolean, the dict of every
\* candidate label, or that dict with one key missing.
FirstLabelTokenMappings(config) ==
    LET labels == Range(LogprobsCandidateLabels(config))
    IN  {BoolMapping(TRUE), BoolMapping(FALSE), DictMapping(labels)}
            \cup {DictMapping(labels \ {label}) : label \in labels}

\* The labels of the dataset's label column.
ExampleLabels == { <<"a">>, <<"A">>, <<"b">>, <<"c">> }

\* The label columns of a batch.
LabelColumns == SeqsUpTo(ExampleLabels, MaxExamples)

\* The label2id dictionaries: keys in upper case in either order, and one with
\* a key that is not in upper case.
Label2IdDicts ==
    { (<<"A">> :> 0) @@ (<<"B">> :> 1),
      (<<"B">> :> 0) @@ (<<"A">> :> 1),
      (<<"a">> :> 0) @@ (<<"B">> :> 1) }

(***************************************************************************)
(* get_closest_logprobs_labels, its pure parts.                            *)
(***************************************************************************)
RECURSIVE DropEmpty(_)
\* [label for label in generated_labels if label != ""]
DropEmpty(labels) ==
    IF labels = <<>> THEN <<>>
    ELSE IF Head(labels) = <<>> THEN DropEmpty(Tail(labels))
    ELSE <<Head(labels)>> \o DropEmpty(Tail(labels))

\* GeneratedLabels without the filter that drops the empty strings.
GeneratedLabelsKeepEmpty(logprob_list) ==
    [i \in 1..Len(logprob_list) |-> NormaliseToken(logprob_list[i])]

\* generated_labels of one decoding step: normalised, empty strings dropped
GeneratedLabels(logprob_list) ==
    DropEmpty([i \in 1..Len(logprob_list) |-> NormaliseToken(logprob_list[i])])

\* any(candidate_label not in first_label_token_mapping for ...)
MappingLacksLabel(candidate_labels, mapping) ==
    \E i \in 1..Len(candidate_labels) :
        candidate_labels[i] \notin DOMAIN mapping.dict

\* candidate_output_labels for a dict first_label_token_mapping
ExactCandidates(candidate_labels, mapping, generated_label) ==
    {candidate_label \in Range(candidate_labels) :
        generated_label \in {candidate_label, mapping.dict[candidate_label]}}

\* PrefixCandidates with the receiver and the argument of startswith swapped.
PrefixCandidatesSwapped(candidate_labels, generated_label) ==
    {candidate_label \in Range(candidate_labels) :
        StartsWith(generated_label, candidate_label)}

\* candidate_output_labels for a Boolean first_label_token_mapping
PrefixCandidates(candidate_labels, generated_label) ==
    {candidate_label \in Range(candidate_labels) :
        StartsWith(candidate_label, generated_label)}

\* candidate_output_labels
CandidateOutputLabels(candidate_labels, mapping, generated_label) ==
    IF mapping.is_dict
    THEN ExactCandidates(candidate_labels, mapping, generated_label)
    ELSE PrefixCandidates(candidate_labels, generated_label)

\* DefaultLabel taking the last candidate label instead of the first.
DefaultLabelLast(candidate_labels) == candidate_labels[Len(candidate_labels)]

\* The label used when no decoding step of a sample gives one.
DefaultLabel(candidate_labels) == candidate_labels[1]

(***************************************************************************)
(* get_closest_word_edit_labels, its pure parts.                           *)
(***************************************************************************)
\* EditDistances without lowercasing the predicted label.
EditDistancesCaseSensitive(text, candidate_labels) ==
    [i \in 1..Len(candidate_labels) |->
        Levenshtein(text, Lower(candidate_labels[i]))]

\* edit_distances of one predicted label
EditDistances(text, candidate_labels) ==
    [i \in 1..Len(candidate_labels) |->
        Levenshtein(Lower(text), Lower(candidate_labels[i]))]

\* ArgMin taking the last index of a least value.
ArgMinLast(values) ==
    CHOOSE i \in 1..Len(values) :
        /\ \A j \in 1..Len(values) : values[i] <= values[j]
        /\ \A j \in (i + 1)..Len(values) : values[j] > values[i]

\* np.argmin(values): the first index of a least value (1-based here)
ArgMin(values) ==
    CHOOSE i \in 1..Len(values) :
        /\ \A j \in 1..Len(values) : values[i] <= values[j]
        /\ \A j \in 1..(i - 1) : values[j] > values[i]

\* closest_label of one predicted label
ClosestLabel(text, candidate_labels) ==
    candidate_labels[ArgMin(EditDistances(text, candidate_labels))]

(***************************************************************************)
(* compute_metrics, the mapping of string predictions to label indices.    *)
(***************************************************************************)
\* prompt_label_to_label_mapping: its keys
PromptLabels(config) ==
    {config.prompt_label_mapping[label] : label \in DOMAIN config.prompt_label_mapping}

\* prompt_label_to_label_mapping[prompt_label]
PromptLabelToLabel(config, prompt_label) ==
    CHOOSE label \in DOMAIN config.prompt_label_mapping :
        config.prompt_label_mapping[label] = prompt_label

\* label2id[label], the key of `label` in id2label (0-based as in the code)
Label2Id(config, label) ==
    (CHOOSE i \in 1..Len(config.id2label) : config.id2label[i] = label) - 1

\* Whether label2id[prompt_label_to_label_mapping[pred.lower()]] finds its keys.
PredictionKnown(config, pred) ==
    /\ Lower(pred) \in PromptLabels(config)
    /\ PromptLabelToLabel(config, Lower(pred)) \in Range(config.id2label)

\* label2id[prompt_label_to_label_mapping[pred.lower()]]
PredictionId(config, pred) ==
    Label2Id(config, PromptLabelToLabel(config, Lower(pred)))

(***************************************************************************)
(* The state machine.                                                      *)
(***************************************************************************)
Init ==
    /\ dataset_config \in DatasetConfigs
    /\ first_label_token_mapping \in FirstLabelTokenMappings(dataset_config)
    /\ scores_present \in BOOLEAN
    /\ pc = "extract_labels_from_generation"
    /\ resolver = "none"
    /\ exception = None
    /\ output_labels = <<>>
    /\ sample_len = 0
    /\ step_idx = 0
    /\ generated_labels = <<>>
    /\ label_idx = 0
    /\ previously_generated_labels = <<>>
    /\ output_label = None
    /\ predicted_label = None
    /\ sample_idx = 0
    /\ result = NoLabels
    /\ predictions = NoPredictions
    /\ first_step_size = 0
    /\ first_label = None
    /\ matched = FALSE
    /\ candidate_sets = {}
    /\ examples = [label |-> <<>>]
    /\ label2id = <<>>
    /\ labels_at_call = <<>>

\* The variables of the scan of one sample by get_closest_logprobs_labels.
scan_vars == <<sample_len, step_idx, generated_labels, label_idx,
               previously_generated_labels, output_label, first_step_size,
               first_label, matched, candidate_sets>>

\* The inputs of the call.
input_vars == <<dataset_config, first_label_token_mapping, scores_present>>

\* The variables of _create_numerical_labels.
numerical_vars == <<examples, label2id, labels_at_call>>

\* Dispatch testing first_label_token_mapping instead of the scores.
DispatchOnMapping(scores_not_none, mapping) ==
    IF mapping.is_dict \/ mapping.flag
    THEN "get_closest_logprobs_labels"
    ELSE "get_closest_word_edit_labels"

\* if model_output.scores is not None: the resolver the dispatcher calls
Dispatch(scores_not_none, mapping) ==
    IF scores_not_none
    THEN "get_closest_logprobs_labels"
    ELSE "get_closest_word_edit_labels"

\* extract_labels_from_generation: call one of the two resolvers.
ExtractLabelsFromGeneration ==
    /\ pc = "extract_labels_from_generation"
    /\ resolver' = Dispatch(scores_present, first_label_token_mapping)
    /\ pc' = IF resolver' = "get_closest_logprobs_labels"
             THEN "for_sample"
             ELSE "for_predicted_label"
    /\ output_labels' = <<>>
    /\ UNCHANGED numerical_vars
    /\ UNCHANGED <<input_vars, scan_vars, exception, predicted_label,
                   sample_idx, result, predictions>>

\* `for sample in generation_logprobs`: fetch the next sample, or, the batch
\* having no more, leave the loop for the assertion and the return.
\* len(generation_logprobs) is the number of samples fetched.
ForSample ==
    /\ pc = "for_sample"
    /\ \/ /\ sample_idx < MaxSamples
          /\ \E n \in 0..MaxSteps : sample_len' = n
          /\ sample_idx' = sample_idx + 1
          /\ step_idx' = 0
          /\ first_step_size' = 0
          /\ first_label' = None
          /\ matched' = FALSE
          /\ candidate_sets' = {}
          /\ pc' = "for_logprob_list"
          /\ UNCHANGED <<exception, result>>
       \/ /\ IF Len(output_labels) = sample_idx
             THEN /\ result' = output_labels
                  /\ pc' = "returned"
                  /\ UNCHANGED exception
             ELSE /\ exception' = <<"AssertionError">>
                  /\ pc' = "raised"
                  /\ UNCHANGED result
          /\ UNCHANGED <<sample_len, sample_idx, step_idx, first_step_size,
                         first_label, matched,
                         candidate_sets>>
    /\ UNCHANGED numerical_vars
    /\ UNCHANGED <<input_vars, resolver, output_labels, generated_labels,
                   label_idx, previously_generated_labels, output_label,
                   predicted_label, predictions>>

\* `for logprob_list in sample`: fetch the next decoding step and normalise its
\* tokens, or take the loop's else branch and use the default label.
ForLogprobList ==
    /\ pc = "for_logprob_list"
    /\ IF step_idx < sample_len
       THEN /\ \E logprob_list \in RankedLists :
                generated_labels' = GeneratedLabels(logprob_list)
            /\ output_label' = None
            /\ previously_generated_labels' = <<>>
            /\ label_idx' = 0
            /\ step_idx' = step_idx + 1
            /\ first_step_size' =
                   IF step_idx = 0 THEN Len(generated_labels') ELSE first_step_size
            /\ first_label' =
                   IF step_idx = 0 /\ generated_labels' # <<>>
                   THEN generated_labels'[1]
                   ELSE first_label
            /\ pc' = "for_generated_label"
            /\ UNCHANGED output_labels
       ELSE /\ output_labels' =
                   Append(output_labels,
                          DefaultLabel(LogprobsCandidateLabels(dataset_config)))
            /\ pc' = "for_sample"
            /\ UNCHANGED <<generated_labels, output_label,
                           previously_generated_labels, label_idx, step_idx,
                           first_step_size, first_label>>
    /\ UNCHANGED numerical_vars
    /\ UNCHANGED <<input_vars, resolver, exception, sample_len, predicted_label,
                   sample_idx, result, predictions, matched,
                   candidate_sets>>

\* GeneratedLabel without the accumulator joined in front of the token.
GeneratedLabelNoAccumulator == generated_labels[label_idx + 1]

\* The text the scan examines at position label_idx of the step.
GeneratedLabel ==
    Join(previously_generated_labels) \o generated_labels[label_idx + 1]

\* `for label_idx, generated_label in enumerate(generated_labels)`: examine the
\* next token of the step, or leave the loop when the step has no more.
ForGeneratedLabel ==
    /\ pc = "for_generated_label"
    /\ LET candidate_labels == LogprobsCandidateLabels(dataset_config)
           mapping == first_label_token_mapping
       IN  IF label_idx >= Len(generated_labels)
           THEN /\ pc' = "if_output_label"
                /\ UNCHANGED <<exception, label_idx, output_label,
                               previously_generated_labels, matched,
                               candidate_sets>>
           ELSE IF mapping.is_dict /\ MappingLacksLabel(candidate_labels, mapping)
           THEN /\ exception' = <<"InvalidBenchmark", "label not in mapping">>
                /\ pc' = "raised"
                /\ UNCHANGED <<label_idx, output_label,
                               previously_generated_labels, matched,
                               candidate_sets>>
           ELSE LET candidate_output_labels ==
                        CandidateOutputLabels(candidate_labels, mapping,
                                              GeneratedLabel)
                IN  /\ matched' = (matched \/ candidate_output_labels # {})
                    /\ candidate_sets' =
                           IF candidate_output_labels # {}
                           THEN candidate_sets
                                    \cup {<<label_idx, candidate_output_labels>>}
                           ELSE candidate_sets
                    /\ IF Cardinality(candidate_output_labels) = 1
                       THEN /\ output_label' \in candidate_output_labels
                            /\ pc' = "if_output_label"
                            /\ UNCHANGED <<exception, label_idx,
                                           previously_generated_labels>>
                       ELSE IF Cardinality(candidate_output_labels) > 1
                       THEN IF label_idx = 0
                            THEN /\ previously_generated_labels' =
                                        Append(previously_generated_labels,
                                               GeneratedLabel)
                                 /\ label_idx' = label_idx + 1
                                 /\ UNCHANGED <<exception, pc, output_label>>
                            ELSE /\ output_label' \in candidate_output_labels
                                 /\ exception' =
                                        <<"InvalidBenchmark", "multiple candidates">>
                                 /\ pc' = "raised"
                                 /\ UNCHANGED <<label_idx,
                                                previously_generated_labels>>
                       ELSE /\ label_idx' = label_idx + 1
                            /\ UNCHANGED <<exception, pc, output_label,
                                           previously_generated_labels>>
    /\ UNCHANGED numerical_vars
    /\ UNCHANGED <<input_vars, resolver, output_labels, sample_len, step_idx,
                   generated_labels, predicted_label, sample_idx, result,
                   predictions, first_step_size, first_label>>

\* IfOutputLabel without the `break` that leaves the sample's loop.
IfOutputLabelNoBreak ==
    /\ pc = "if_output_label"
    /\ output_labels' = IF output_label # None
                        THEN Append(output_labels, output_label)
                        ELSE output_labels
    /\ pc' = "for_logprob_list"
    /\ UNCHANGED numerical_vars
    /\ UNCHANGED <<input_vars, scan_vars, resolver, exception, predicted_label,
                   sample_idx, result, predictions>>

\* `if output_label is not None`: keep the step's label and leave the sample,
\* or go on with the next decoding step.
IfOutputLabel ==
    /\ pc = "if_output_label"
    /\ IF output_label # None
       THEN /\ output_labels' = Append(output_labels, output_label)
            /\ pc' = "for_sample"
       ELSE /\ pc' = "for_logprob_list"
            /\ UNCHANGED output_labels
    /\ UNCHANGED numerical_vars
    /\ UNCHANGED <<input_vars, scan_vars, resolver, exception, predicted_label,
                   sample_idx, result, predictions>>

\* get_closest_word_edit_labels: `for predicted_label in generated_sequences`,
\* then the return.
ForPredictedLabel ==
    /\ pc = "for_predicted_label"
    /\ \/ /\ sample_idx < MaxSamples
          /\ \E text \in TextSamples :
                /\ predicted_label' = text
                /\ output_labels' =
                       Append(output_labels,
                              ClosestLabel(text,
                                           EditCandidateLabels(dataset_config)))
          /\ sample_idx' = sample_idx + 1
          /\ UNCHANGED <<pc, result>>
       \/ /\ result' = output_labels
          /\ pc' = "returned"
          /\ UNCHANGED <<predicted_label, output_labels, sample_idx>>
    /\ UNCHANGED numerical_vars
    /\ UNCHANGED <<input_vars, scan_vars, resolver, exception, predictions>>

\* compute_metrics: the string predictions become label indices.
ComputeMetrics ==
    /\ pc = "returned"
    /\ IF \A i \in 1..Len(result) : PredictionKnown(dataset_config, result[i])
       THEN /\ predictions' =
                   [i \in 1..Len(result) |-> PredictionId(dataset_config, result[i])]
            /\ pc' = "done"
            /\ UNCHANGED exception
       ELSE /\ exception' = <<"KeyError">>
            /\ pc' = "raised"
            /\ UNCHANGED predictions
    /\ UNCHANGED numerical_vars
    /\ UNCHANGED <<input_vars, scan_vars, resolver, output_labels,
                   predicted_label, sample_idx, result>>

Next ==
    \/ ExtractLabelsFromGeneration
    \/ ForSample
    \/ ForLogprobList
    \/ ForGeneratedLabel
    \/ IfOutputLabel
    \/ ForPredictedLabel
    \/ ComputeMetrics

Spec == Init /\ [][Next]_vars

(***************************************************************************)
(* SequenceClassification._create_numerical_labels                         *)
(* (src/src/scandeval/sequence_classification.py).                         *)
(***************************************************************************)
\* The variables of the label resolution, which the method does not touch.
generation_vars == <<input_vars, scan_vars, resolver, output_labels,
                     predicted_label, sample_idx, result, predictions>>

\* The state at the call of _create_numerical_labels(examples, label2id).
InitNumerical ==
    /\ \E column \in LabelColumns :
           /\ examples = [label |-> column]
           /\ labels_at_call = column
    /\ label2id \in Label2IdDicts
    /\ pc = "_create_numerical_labels"
    /\ exception = None
    /\ dataset_config = [id2label |-> <<>>, prompt_label_mapping |-> <<>>]
    /\ first_label_token_mapping = BoolMapping(FALSE)
    /\ scores_present = FALSE
    /\ resolver = "none"
    /\ output_labels = <<>>
    /\ sample_len = 0
    /\ step_idx = 0
    /\ generated_labels = <<>>
    /\ label_idx = 0
    /\ previously_generated_labels = <<>>
    /\ output_label = None
    /\ predicted_label = None
    /\ sample_idx = 0
    /\ result = NoLabels
    /\ predictions = NoPredictions
    /\ first_step_size = 0
    /\ first_label = None
    /\ matched = FALSE
    /\ candidate_sets = {}

\* [label2id[lbl.upper()] for lbl in examples["label"]] finds every key.
LabelsKnown(column, dict) ==
    \A i \in 1..Len(column) : Upper(column[i]) \in DOMAIN dict

\* [label2id[lbl.upper()] for lbl in examples["label"]]
NumericalLabels(column, dict) ==
    [i \in 1..Len(column) |-> dict[Upper(column[i])]]

\* The try block: the list comprehension and the assignment to
\* examples["label"], then the return; a KeyError of the comprehension leaves
\* examples as it was and enters the except clause.
CreateNumericalLabels ==
    /\ pc = "_create_numerical_labels"
    /\ IF LabelsKnown(examples.label, label2id)
       THEN /\ examples' =
                   [examples EXCEPT !.label = NumericalLabels(@, label2id)]
            /\ pc' = "returned_examples"
       ELSE /\ pc' = "except_KeyError"
            /\ UNCHANGED examples
    /\ UNCHANGED <<generation_vars, exception, label2id, labels_at_call>>

\* The except clause: the message of the InvalidBenchmark is formatted first,
\* and its f-string calls examples['label'].upper() on the list of labels; a
\* list has no attribute upper, so an AttributeError leaves the method and the
\* `raise InvalidBenchmark(...)` is never executed.
ExceptKeyError ==
    /\ pc = "except_KeyError"
    /\ exception' = <<"AttributeError">>
    /\ pc' = "raised"
    /\ UNCHANGED <<generation_vars, numerical_vars>>

NextNumerical ==
    \/ CreateNumericalLabels
    \/ ExceptKeyError

SpecNumerical == InitNumerical /\ [][NextNumerical]_vars

(***************************************************************************)
(* The claims.                                                             *)
(***************************************************************************)
LogprobsCall == resolver = "get_closest_logprobs_labels"

EditCall == resolver = "get_closest_word_edit_labels"

\* The candidate labels of the logprob resolver, in vocabulary order.
Candidates == LogprobsCandidateLabels(dataset_config)

\* The first label of the vocabulary in canonical order, lowercased.
FirstVocabularyLabel ==
    Lower(dataset_config.prompt_label_mapping[dataset_config.id2label[1]])

\* first_label_token_mapping is a Boolean, or a dict with every candidate label.
MappingComplete ==
    \/ ~first_label_token_mapping.is_dict
    \/ \A label \in Range(Candidates) :
           label \in DOMAIN first_label_token_mapping.dict

\* Every sample fetched so far has its label.
LastSampleResolved == sample_idx >= 1 /\ Len(output_labels) = sample_idx

\* The label of the sample fetched last.
LastLabel == output_labels[sample_idx]

\* The labels a text matches: by prefix with a Boolean mapping, as the label or
\* its first token with a dict.
MatchingLabels(text) ==
    IF first_label_token_mapping.is_dict
    THEN {label \in Range(Candidates) :
              \/ text = label
              \/ text = first_label_token_mapping.dict[label]}
    ELSE {label \in Range(Candidates) : StartsWith(label, text)}

\* C1, as claimed: for every batch of N logprob samples the logprob resolver
\* returns a list of exactly N labels (stated for the mappings that lack no
\* label: no InvalidBenchmark is raised, and what is returned has one label for
\* each of the N samples fetched).
C1_ReturnsOneLabelPerSample ==
    (LogprobsCall /\ MappingComplete) =>
        /\ exception[1] # "InvalidBenchmark"
        /\ result # NoLabels => Len(result) = sample_idx

\* C2: if the first non-empty normalised token of a sample's first decoding step
\* matches exactly one candidate label, the scan stops at the first step with
\* that label, no InvalidBenchmark is raised, and the sample resolves to that
\* label, whatever the other tokens of the step are and however many steps follow.
C2_UniqueFirstTokenResolves ==
    (/\ LogprobsCall
     /\ MappingComplete
     /\ first_label # None
     /\ Cardinality(MatchingLabels(first_label)) = 1) =>
        /\ step_idx = 1
        /\ exception[1] # "InvalidBenchmark"
        /\ pc # "for_logprob_list"
        /\ pc = "if_output_label" =>
               output_label \in MatchingLabels(first_label)
        /\ pc \notin {"for_generated_label", "if_output_label"} =>
               /\ LastSampleResolved
               /\ LastLabel \in MatchingLabels(first_label)

\* C2's case: a sample of two decoding steps whose first step ranks two tokens,
\* the first matching one label, resolved to that label.
C2_Witness ==
    /\ LogprobsCall
    /\ first_label # None
    /\ first_step_size = 2
    /\ sample_len = 2
    /\ MappingComplete
    /\ Cardinality(MatchingLabels(first_label)) = 1
    /\ LastSampleResolved
    /\ LastLabel \in MatchingLabels(first_label)
    /\ LastLabel # FirstVocabularyLabel

\* C3, as claimed: with prefix matching and the labels "ab" and "ac", a sample
\* whose first step is ["a"] and whose second step is ["b"] resolves to "ab".
C3_ConcatenatesAcrossSteps ==
    (/\ LogprobsCall
     /\ ~first_label_token_mapping.is_dict
     /\ {<<"a", "b">>, <<"a", "c">>} \subseteq Range(Candidates)
     /\ sample_len = 2
     /\ step_idx = 2
     /\ first_step_size = 1
     /\ first_label = <<"a">>
     /\ generated_labels = << <<"b">> >>
     /\ LastSampleResolved) =>
        LastLabel = <<"a", "b">>

\* C4, as claimed: when a text that is not the first of its step matches more
\* than one label, the sample resolves to one of these labels and nothing is
\* raised.
C4_LaterAmbiguityResolvesQuietly ==
    (/\ LogprobsCall
     /\ pc # "for_generated_label"
     /\ label_idx > 0
     /\ label_idx < Len(generated_labels)
     /\ Cardinality(MatchingLabels(GeneratedLabel)) > 1) =>
        /\ exception = None
        /\ output_label \in MatchingLabels(GeneratedLabel)

C7_DispatchOnScores ==
    /\ resolver # "none" =>
           /\ LogprobsCall <=> scores_present
           /\ EditCall <=> ~scores_present
    /\ (/\ LogprobsCall
        /\ ~first_label_token_mapping.is_dict
        /\ pc = "if_output_label"
        /\ output_label # None) =>
           {label \in Range(Candidates) : StartsWith(label, GeneratedLabel)}
               = {output_label}
    /\ (/\ LogprobsCall
        /\ ~first_label_token_mapping.is_dict
        /\ previously_generated_labels # <<>>) =>
           Cardinality({label \in Range(Candidates) :
                            StartsWith(label, previously_generated_labels[1])}) > 1

\* C7's case: scores present and first_label_token_mapping False, a label
\* resolved from a text that is a proper prefix of it.
C7_Witness ==
    /\ LogprobsCall
    /\ scores_present
    /\ ~first_label_token_mapping.is_dict
    /\ ~first_label_token_mapping.flag
    /\ pc = "if_output_label"
    /\ output_label # None
    /\ output_label # GeneratedLabel
    /\ StartsWith(output_label, GeneratedLabel)

\* C8: the edit-distance resolver returns a candidate surface form whose
\* Levenshtein distance to the lowercased sample, on lowercased strings, is
\* least, the earliest such candidate in vocabulary order; a sample equal to a
\* surface form after lowercasing resolves to that surface form.
C8_ClosestEarliestCandidate ==
    (EditCall /\ predicted_label # None) =>
        LET labels == EditCandidateLabels(dataset_config)
            closest == output_labels[Len(output_labels)]
            dist(i) == Levenshtein(Lower(predicted_label), Lower(labels[i]))
        IN  /\ Len(output_labels) = sample_idx
            /\ \E i \in 1..Len(labels) :
                   /\ labels[i] = closest
                   /\ \A j \in 1..Len(labels) : dist(i) <= dist(j)
                   /\ \A j \in 1..(i - 1) : dist(j) > dist(i)
            /\ \A j \in 1..Len(labels) :
                   Lower(labels[j]) = Lower(predicted_label) =>
                       closest = labels[j]

\* C8's case: a sample at the same least distance from two candidates, resolved
\* to the earlier one.
C8_Witness ==
    /\ EditCall
    /\ predicted_label # None
    /\ LET labels == EditCandidateLabels(dataset_config)
           dist(i) == Levenshtein(Lower(predicted_label), Lower(labels[i]))
       IN  \E i, j \in 1..Len(labels) :
               /\ i < j
               /\ dist(i) = dist(j)
               /\ \A k \in 1..Len(labels) : dist(i) <= dist(k)
               /\ output_labels[Len(output_labels)] = labels[i]

\* C9: the edit-distance resolver gives every text sample that equals the
\* resolved sample after lowercasing the label it gave the resolved sample.
C9_CaseInvariant ==
    (EditCall /\ predicted_label # None) =>
        \A text \in TextSamples :
            Lower(text) = Lower(predicted_label) =>
                ClosestLabel(text, EditCandidateLabels(dataset_config))
                    = output_labels[Len(output_labels)]

\* C9's case: a resolved sample with an uppercase character, and another sample
\* equal to it after lowercasing.
C9_Witness ==
    /\ EditCall
    /\ predicted_label # None
    /\ Lower(predicted_label) # predicted_label
    /\ Lower(predicted_label) \in TextSamples
    /\ Len(output_labels) = sample_idx

\* C10, as claimed: compute_metrics maps every label a resolver returned,
\* without a lookup failure, to the index of the label whose surface form it
\* is, for every vocabulary.
C10_ReturnedLabelsHaveIds ==
    result # NoLabels =>
        /\ exception # <<"KeyError">>
        /\ pc = "done" =>
               /\ Len(predictions) = Len(result)
               /\ \A i \in 1..Len(result) :
                      \E j \in 1..Len(dataset_config.id2label) :
                          /\ predictions[i] = j - 1
                          /\ Lower(dataset_config.prompt_label_mapping[
                                       dataset_config.id2label[j]])
                                 = Lower(result[i])

\* C11, as claimed: the accumulator is extended only at the first decoding step
\* of a sample: at every later step nothing is appended to it, so it is empty
\* there and every text examined is one token of the step.
C11_AccumulatesOnlyAtFirstStep ==
    (LogprobsCall /\ step_idx >= 2) => previously_generated_labels = <<>>

\* C12: within one sample the decoding steps are fetched in order, one at a
\* time; the step after a step is fetched only when the scan of that step came
\* to the end of its tokens without a label (each token matched nothing, or the
\* first was kept as ambiguous); once the sample has its label, nothing more of
\* it is fetched or examined until the next sample is fetched; and a label in
\* the output list is never changed or removed.
C12_StepsInOrderLabelsKept ==
    [][LogprobsCall =>
           /\ step_idx' # step_idx =>
                  \/ step_idx' = step_idx + 1
                  \/ step_idx' = 0 /\ sample_idx' = sample_idx + 1
           /\ (step_idx' = step_idx + 1 /\ step_idx >= 1) =>
                  /\ output_label = None
                  /\ label_idx = Len(generated_labels)
                  /\ Len(output_labels) = sample_idx - 1
                  /\ sample_idx' = sample_idx
           /\ LastSampleResolved =>
                  \/ sample_idx' = sample_idx + 1
                  \/ UNCHANGED <<step_idx, label_idx, generated_labels,
                                 previously_generated_labels, output_label,
                                 output_labels>>
           /\ Len(output_labels') >= Len(output_labels)
           /\ \A i \in 1..Len(output_labels) :
                  output_labels'[i] = output_labels[i]]_vars

\* C12's case: the second sample of a batch, whose first step had two tokens
\* and gave no label, resolved by the first of the two tokens of its second
\* step, the label of the first sample still in place.
C12_Witness ==
    /\ LogprobsCall
    /\ pc = "for_sample"
    /\ sample_idx = 2
    /\ sample_len = 2
    /\ step_idx = 2
    /\ first_step_size = 2
    /\ Len(generated_labels) = 2
    /\ label_idx = 0
    /\ output_label # None
    /\ LastSampleResolved
    /\ LastLabel = output_label

\* C13: when the text of the ranked token under examination (the accumulator
\* joined with the token) matches no label, the step the code takes leaves the
\* accumulator, the pending output label and the output list as they are, raises
\* nothing, and goes on to the next position of the same decoding step.
C13_ZeroCandidatesContinue ==
    [][(/\ LogprobsCall
        /\ pc = "for_generated_label"
        /\ label_idx < Len(generated_labels)
        /\ MappingComplete
        /\ MatchingLabels(Join(previously_generated_labels)
                              \o generated_labels[label_idx + 1]) = {}) =>
           /\ UNCHANGED <<previously_generated_labels, output_label, exception,
                          output_labels, generated_labels, step_idx>>
           /\ label_idx' = label_idx + 1
           /\ pc' = "for_generated_label"]_vars

\* C13's case: the first token of a step matched no label, and the scan went on
\* to the second token of the same step, which gave the label.
C13_Witness ==
    /\ LogprobsCall
    /\ MappingComplete
    /\ pc = "if_output_label"
    /\ Len(generated_labels) = 2
    /\ label_idx = 1
    /\ previously_generated_labels = <<>>
    /\ MatchingLabels(generated_labels[1]) = {}
    /\ output_label # None
    /\ exception = None

\* C14, as claimed: _create_numerical_labels, given a batch with a label that
\* after uppercasing is no key of label2id, fails with InvalidBenchmark and
\* with no other exception; given a batch whose labels are all keys, it returns
\* the batch with every label replaced by its label2id value, in the same
\* order and of the same length.
C14_UnknownLabelRaisesInvalidBenchmark ==
    /\ pc = "raised" =>
           /\ exception[1] = "InvalidBenchmark"
           /\ \E i \in 1..Len(labels_at_call) :
                  Upper(labels_at_call[i]) \notin DOMAIN label2id
    /\ pc = "returned_examples" =>
           /\ Len(examples.label) = Len(labels_at_call)
           /\ \A i \in 1..Len(labels_at_call) :
                  /\ Upper(labels_at_call[i]) \in DOMAIN label2id
                  /\ examples.label[i] = label2id[Upper(labels_at_call[i])]

====
